---------------------------- MODULE Spec2Model ----------------------------
(***************************************************************************)
(* SoundViz: the chunked aggregation of a sound-event log.                 *)
(*                                                                         *)
(* Two drivers are modelled.  The sequential one is main() of sv.py, which *)
(* reads the log in chunks and accumulates four count mappings, a time     *)
(* span and the list of valid rows in place.  The parallel one hands every *)
(* chunk to process_chunk() of sv_functions.py and merges the returned     *)
(* partial results as workers complete.  A second specification runs two  *)
(* calls of process_chunk() at the same time, statement by statement.      *)
(* Further specifications run main() on logs with blank lines, the loop    *)
(* body that draws a group's class pie, and add_images_to_pdf().           *)
(*                                                                         *)
(* A log line is a record [datetime, camera, group_score, class,           *)
(* class_score, group_start, group_end] (the 'group' column, which nothing *)
(* reads, is left out).  The datetime, score and marker fields are the     *)
(* text of the CSV field, "" being an empty field (read by pandas as NaN). *)
(* Scores are hundredths.  The class field is the                          *)
(* text of the field as the sequence of its characters' runs: dot-free     *)
(* pieces and "." separators, so "birds.crow" is <<"birds", ".", "crow">>. *)
(* Instants are minutes since 2024-01-01T00:00.                            *)
(***************************************************************************)
EXTENDS Integers, Sequences, FiniteSets, TLC

\* ------------------------------------------------------------------ bounds
\* Longest log body (data lines) explored.
MaxLen == 3

\* ------------------------------------------------------- values of pandas
\* Python's None (start_time / end_time before any chunk was merged).
None == -2
\* pandas.NaT: the result of pd.to_datetime on a NaN (empty) field.
NaT == -1
\* Minutes per hour, the unit of Series.dt.floor('h').
MinutesPerHour == 60
\* numpy.nan, what the score converters return for a text that is no float.
NaN == -3

\* The name read_csv gives to the first column; also the text of the first
\* field of a header line.
TimestampColumn == "datetime"

\* ------------------------------------------------------------ sample rows
\* Instants that pd.to_datetime parses from the sample timestamps.
ParseTable ==
    [ s \in {"2024-01-01T10:00:00", "2024-01-01T10:15:00", "2024-01-01T11:00:00"} |->
        CASE s = "2024-01-01T10:00:00" -> 600
          [] s = "2024-01-01T10:15:00" -> 615
          [] s = "2024-01-01T11:00:00" -> 660 ]

\* Floats that float() parses from the sample score texts, in hundredths.
FloatTable ==
    [ s \in {"0.9", "0.8"} |-> IF s = "0.9" THEN 90 ELSE 80 ]

\* A log line with both scores present and no group_end marker.
Row(ts, cam, cls, gs) ==
    [datetime |-> ts, camera |-> cam, group_score |-> "0.9", class |-> cls,
     class_score |-> "0.8", group_start |-> gs, group_end |-> ""]

\* A line of the file without any character.
BlankLine == [blank |-> TRUE]

\* The header line some logs start with.
HeaderRow ==
    [Row(TimestampColumn, "camera", <<"class">>, "group_start")
        EXCEPT !.group_score = "group_score", !.class_score = "class_score",
               !.group_end = "group_end"]

\* The data lines logs are built from: the three rows of the documented
\* scenario, rows of another camera, hour and class, a row whose class has
\* no '.', a row with an empty timestamp, a row that differs from the
\* first only in carrying no group_start marker, and that row with an
\* empty group_score and an unparsable class_score as well.
DataRows ==
    { Row("2024-01-01T10:00:00", "camA", <<"birds", ".", "crow">>, "open"),
      Row("2024-01-01T10:15:00", "camA", <<"birds", ".", "crow">>, ""),
      Row("not-a-date",          "camA", <<"people", ".", "talk">>, ""),
      Row("2024-01-01T10:00:00", "camA", <<"birds", ".", "crow">>, ""),
      Row("2024-01-01T11:00:00", "camB", <<"birds", ".", "jay">>, "open"),
      Row("2024-01-01T10:15:00", "camB", <<"environment">>, ""),
      Row("2024-01-01T11:00:00", "camA", <<"environment">>, "open"),
      Row("",                    "camB", <<"birds", ".", "crow">>, "open"),
      [Row("2024-01-01T10:00:00", "camA", <<"birds", ".", "crow">>, "")
          EXCEPT !.group_score = "", !.class_score = "high"] }

\* ------------------------------------------------------- sequence helpers
RECURSIVE SeqsUpTo(_, _)
SeqsUpTo(S, n) ==
    IF n = 0 THEN { <<>> }
    ELSE LET shorter == SeqsUpTo(S, n - 1)
         IN  shorter \cup { Append(s, x) : s \in { t \in shorter : Len(t) = n - 1 }, x \in S }

Range(s) == { s[i] : i \in DOMAIN s }

Min(a, b) == IF a <= b THEN a ELSE b

\* Ceiling of n / d.
CeilDiv(n, d) == (n + d - 1) \div d

RECURSIVE SumOver(_, _)
SumOver(f, D) ==
    IF D = {} THEN 0
    ELSE LET k == CHOOSE x \in D : TRUE IN f[k] + SumOver(f, D \ {k})

\* The sum of the values of a count mapping.
Total(d) == SumOver(d, DOMAIN d)

\* An empty dict / defaultdict(int) with no key touched.
EmptyDict == [k \in {} |-> 0]

\* d[k], reading a missing key as 0 without inserting it.
Get(d, k) == IF k \in DOMAIN d THEN d[k] ELSE 0


\* Key-wise addition of the counts vc into the dict d: the loops
\* "for key, count in counts.items(): d[key] += count".
AddCounts(d, vc) ==
    [k \in DOMAIN d \cup DOMAIN vc |-> Get(d, k) + Get(vc, k)]

\* Series.value_counts() / groupby(...).size(): how often each key occurs
\* in a sequence of keys.
ValueCounts(keys) ==
    [k \in Range(keys) |-> Cardinality({ i \in DOMAIN keys : keys[i] = k })]

\* ------------------------------------------------------ score converters
\* float(value) raises ValueError on a text that is no float, the empty
\* text included.
FloatRaises(value) == value \notin DOMAIN FloatTable

\* convert_group_score(value): float(value), numpy.nan when it raises.
convert_group_score(value) == IF FloatRaises(value) THEN NaN ELSE FloatTable[value]

\* convert_class_score(value): the same for the class score.
convert_class_score(value) == IF FloatRaises(value) THEN NaN ELSE FloatTable[value]

\* ------------------------------------------------------- row validation
\* pd.to_datetime(value) raises ValueError on text that is no date-time.
\* It does not raise on NaN (an empty field): it returns NaT.
ToDatetimeRaises(value) == value # "" /\ value \notin DOMAIN ParseTable

to_datetime(value) == IF value = "" THEN NaT ELSE ParseTable[value]

is_valid_datetime(value) == ~ToDatetimeRaises(value)

\* Series.dt.floor('h').
FloorHour(t) == IF t = NaT THEN NaT ELSE (t \div MinutesPerHour) * MinutesPerHour

\* A filter that also rejects a row whose scores do not convert.
ValidRows_scored(chunk) ==
    SelectSeq(chunk, LAMBDA r : /\ is_valid_datetime(r.datetime)
                                /\ ~FloatRaises(r.group_score)
                                /\ ~FloatRaises(r.class_score))

\* chunk[chunk['datetime'].apply(is_valid_datetime)]
ValidRows(chunk) == SelectSeq(chunk, LAMBDA r : is_valid_datetime(r.datetime))

\* Comparison of two Timestamps; any comparison with NaT is False.
TsLess(a, b) == a # NaT /\ b # NaT /\ a < b

\* Series.min() / Series.max() of the datetime column: NaT entries are
\* skipped, and the result is NaT when nothing else is left.
Instants(rows) == { to_datetime(rows[i].datetime) : i \in DOMAIN rows } \ {NaT}

SeriesMin(rows) ==
    IF Instants(rows) = {} THEN NaT
    ELSE CHOOSE t \in Instants(rows) : \A u \in Instants(rows) : t <= u

\* A reduction that takes the earliest instant for the latest one.
SeriesMax_earliest(rows) == SeriesMin(rows)

SeriesMax(rows) ==
    IF Instants(rows) = {} THEN NaT
    ELSE CHOOSE t \in Instants(rows) : \A u \in Instants(rows) : t >= u

\* ------------------------------------------- class -> (group, class) split
\* Index of the first "." of a class text, 0 when it has none.
FirstDot(p) ==
    IF "." \in Range(p)
      THEN CHOOSE i \in DOMAIN p : p[i] = "." /\ \A j \in 1..(i - 1) : p[j] # "."
      ELSE 0

\* str.split('.', n=1): column 0 is the text before the first dot, or the
\* whole text when there is none.
group_name(p) == IF FirstDot(p) = 0 THEN p ELSE SubSeq(p, 1, FirstDot(p) - 1)

\* Column 1 exists for a row only if its text has a dot.
HasClassName(p) == FirstDot(p) # 0

class_name(p) == SubSeq(p, FirstDot(p) + 1, Len(p))

\* expand=True yields as many columns as the longest split of the chunk.
\* Assigning it to the two columns ['group_name', 'class_name'] raises
\* ValueError unless it has exactly two, i.e. unless some row has a dot.
SplitRaises(rows) == \A i \in DOMAIN rows : ~HasClassName(rows[i].class)

\* --------------------------------------------------- per-chunk key lists
MapSeq(s, Op(_)) == [i \in DOMAIN s |-> Op(s[i])]

GroupKeys(rows) == MapSeq(rows, LAMBDA r : group_name(r.class))

CameraKeys(rows) == MapSeq(rows, LAMBDA r : r.camera)

\* A reduction that forgets the notna() filter.
Events_unfiltered(rows) == rows

\* valid_rows[valid_rows['group_start'].notna()]
Events(rows) == SelectSeq(rows, LAMBDA r : r.group_start # "")

\* A grouping that keeps the rows whose hour is NaT (dropna=False).
HourlyKeys_keeping_NaT(rows) ==
    MapSeq(Events(rows),
           LAMBDA r : <<FloorHour(to_datetime(r.datetime)), r.camera, r.group_start>>)

\* groupby(['hour', 'camera', 'group_start']): rows whose hour is NaT
\* form no group.
HourlyKeys(rows) ==
    MapSeq(SelectSeq(Events(rows), LAMBDA r : to_datetime(r.datetime) # NaT),
           LAMBDA r : <<FloorHour(to_datetime(r.datetime)), r.camera, r.group_start>>)

\* groupby(['group_name', 'class_name']): rows whose class_name is missing
\* form no group.
ClassKeys(rows) ==
    MapSeq(SelectSeq(rows, LAMBDA r : HasClassName(r.class)),
           LAMBDA r : <<group_name(r.class), class_name(r.class)>>)

\* ------------------------------------------------------- process_chunk
\* The results dict process_chunk starts from.  'raised' is "" for a call
\* that returns and names the exception of a call that raises.
EmptyResults ==
    [ raised |-> "",
      total_classification_counts |-> EmptyDict,
      camera_event_counts |-> EmptyDict,
      hourly_event_counts |-> EmptyDict,
      group_class_counts |-> EmptyDict,
      start_time |-> None,
      end_time |-> None,
      aggregated_rows |-> <<>> ]

\* process_chunk(chunk) of sv_functions.py.  The nested dicts
\* hourly_event_counts[hour][camera][group_start] and
\* group_class_counts[group_name][class_name] are written as mappings of
\* the key tuples; an inner dict exists exactly when one of its keys does.
process_chunk(chunk) ==
    LET valid_rows == ValidRows(chunk) IN
    IF valid_rows = <<>> THEN EmptyResults
    ELSE IF SplitRaises(valid_rows) THEN [EmptyResults EXCEPT !.raised = "ValueError"]
    ELSE [ raised |-> "",
           total_classification_counts |-> AddCounts(EmptyDict, ValueCounts(GroupKeys(valid_rows))),
           camera_event_counts |-> AddCounts(EmptyDict, ValueCounts(CameraKeys(valid_rows))),
           hourly_event_counts |-> AddCounts(EmptyDict, ValueCounts(HourlyKeys(valid_rows))),
           group_class_counts |-> AddCounts(EmptyDict, ValueCounts(ClassKeys(valid_rows))),
           start_time |-> SeriesMin(valid_rows),
           end_time |-> SeriesMax(valid_rows),
           aggregated_rows |-> <<valid_rows>> ]

\* ---------------------------------------------- the loop body of main()
\* The accumulators of main() before the first chunk.
InitialAccumulators == EmptyResults

\* A loop body that assigns the counts of the chunk instead of adding them.
MainLoopBody_assigning(acc, chunk) ==
    IF ValidRows(chunk) = <<>> THEN acc ELSE process_chunk(chunk)

\* One iteration of the chunk loop of main() of sv.py (after the progress
\* line): filter, 'continue' on an empty chunk, update the time span,
\* append the valid rows, split the class, add the four counts.  When the
\* split raises, the updates made before it stay and the counts are not
\* reached.
MainLoopBody(acc, chunk) ==
    LET valid_rows == ValidRows(chunk) IN
    IF valid_rows = <<>> THEN acc
    ELSE [ raised |-> IF SplitRaises(valid_rows) THEN "ValueError" ELSE "",
           start_time |->
               IF acc.start_time = None \/ TsLess(SeriesMin(valid_rows), acc.start_time)
                 THEN SeriesMin(valid_rows) ELSE acc.start_time,
           end_time |->
               IF acc.end_time = None \/ TsLess(acc.end_time, SeriesMax(valid_rows))
                 THEN SeriesMax(valid_rows) ELSE acc.end_time,
           aggregated_rows |-> Append(acc.aggregated_rows, valid_rows),
           total_classification_counts |->
               IF SplitRaises(valid_rows) THEN acc.total_classification_counts
               ELSE AddCounts(acc.total_classification_counts, ValueCounts(GroupKeys(valid_rows))),
           camera_event_counts |->
               IF SplitRaises(valid_rows) THEN acc.camera_event_counts
               ELSE AddCounts(acc.camera_event_counts, ValueCounts(CameraKeys(valid_rows))),
           hourly_event_counts |->
               IF SplitRaises(valid_rows) THEN acc.hourly_event_counts
               ELSE AddCounts(acc.hourly_event_counts, ValueCounts(HourlyKeys(valid_rows))),
           group_class_counts |->
               IF SplitRaises(valid_rows) THEN acc.group_class_counts
               ELSE AddCounts(acc.group_class_counts, ValueCounts(ClassKeys(valid_rows))) ]

\* ------------------------------------------------------------- chunking
\* The rows pd.read_csv parses from the lines of the file: with the
\* default skip_blank_lines=True a blank line is no row.
Records(lines) == SelectSeq(lines, LAMBDA r : r # BlankLine)

\* Number of chunks the reader of pd.read_csv(..., names=..., chunksize=cs)
\* yields for n rows: the first read of a reader without rows returns an
\* empty frame, so a file without rows gives one empty chunk.
NumChunks(n, cs) == IF n = 0 THEN 1 ELSE CeilDiv(n, cs)

\* The k-th chunk (k = 1, 2, ...) of the lines.
Chunk(lines, cs, k) == SubSeq(lines, (k - 1) * cs + 1, Min(k * cs, Len(lines)))

\* The accumulators after the first k chunks, when no chunk raised; after
\* a raise the value at the raise is kept.
RECURSIVE FoldChunks(_, _, _)
FoldChunks(lines, cs, k) ==
    IF k = 0 THEN InitialAccumulators
    ELSE LET before == FoldChunks(lines, cs, k - 1)
         IN  IF before.raised # "" THEN before
             ELSE MainLoopBody(before, Chunk(lines, cs, k))

\* The accumulators of a whole sequential run over the lines.
SequentialRun(lines, cs) == FoldChunks(lines, cs, NumChunks(Len(lines), cs))

\* ---------------------------------------------------------------- state
VARIABLES
    mode,          \* which driver runs: "sequential" (sv.py) or "parallel"
    file_state,    \* the input path: "ok", "missing" or "unreadable"
    log,           \* the lines of the input file
    chunk_size,    \* rows per chunk
    pc,            \* position of the driver
    total_lines,   \* sv.py: lines counted by the first scan
    total_chunks,  \* sv.py: estimated number of chunks
    chunk_number,  \* sv.py: chunks read so far
    acc,           \* the accumulators: four count mappings, time span, rows
    pending,       \* parallel: chunks dispatched and not yet collected
    progress,      \* the progress lines printed, as <<k, total>>
    exit_status,   \* None while running, then the process exit status
    fatal,         \* "" or the message / exception that ended the run
    report_made,   \* whether the PDF report was written
    pool,          \* concurrent calls of process_chunk: their results
                   \* dicts and, per call, its position and its valid_rows
    pie,           \* one group's class pie: its class counts and slices
    pdf            \* one call of add_images_to_pdf: its arguments, its
                   \* position and the pages it has emitted

vars == <<mode, file_state, log, chunk_size, pc, total_lines, total_chunks,
          chunk_number, acc, pending, progress, exit_status, fatal, report_made,
          pool, pie, pdf>>

\* No call of process_chunk is under way.
IdlePool == [cells |-> <<>>, calls |-> <<>>]

\* No pie is being drawn, and no call of add_images_to_pdf is under way.
NoPie == [at |-> "idle"]
NoPdf == [at |-> "idle"]

\* The logs explored: up to MaxLen data lines, with or without a header.
Logs ==
    LET bodies == SeqsUpTo(DataRows, MaxLen)
    IN  bodies \cup { <<HeaderRow>> \o b : b \in bodies }

ChunkSizes == 1..(MaxLen + 1)

Init ==
    /\ mode \in {"sequential", "parallel"}
    /\ file_state \in {"ok", "missing", "unreadable"}
    /\ log \in IF file_state = "ok" THEN Logs ELSE { <<>> }
    /\ chunk_size \in IF file_state = "ok" THEN ChunkSizes ELSE {1}
    /\ pc = "start"
    /\ total_lines = 0
    /\ total_chunks = 0
    /\ chunk_number = 0
    /\ acc = InitialAccumulators
    /\ pending = {}
    /\ progress = <<>>
    /\ exit_status = None
    /\ fatal = ""
    /\ report_made = FALSE
    /\ pool = IdlePool
    /\ pie = NoPie
    /\ pdf = NoPdf

\* The process ends with the given status and message.
Exit(status, message) ==
    /\ pc' = "exited"
    /\ exit_status' = status
    /\ fatal' = message

\* ---------------------------------------------------- sequential driver
\* parse_args() of svf.py: no check of the input path.
ParseArgsSvf ==
    /\ pc = "start" /\ mode = "sequential"
    /\ pc' = "estimate"
    /\ UNCHANGED <<pie, pdf, pool, mode, file_state, log, chunk_size, total_lines, total_chunks,
                   chunk_number, acc, pending, progress, exit_status, fatal, report_made>>

\* main() of sv.py, "Estimate total number of chunks": open() is outside
\* the try block, so its FileNotFoundError / PermissionError is uncaught
\* and the interpreter exits with status 1.
EstimateChunks ==
    /\ pc = "estimate"
    /\ IF file_state = "ok"
         THEN /\ total_lines' = Len(log)
              /\ total_chunks' = CeilDiv(Len(log), chunk_size)
              /\ pc' = "read"
              /\ UNCHANGED <<exit_status, fatal>>
         ELSE /\ Exit(1, IF file_state = "missing" THEN "FileNotFoundError"
                                                    ELSE "PermissionError")
              /\ UNCHANGED <<total_lines, total_chunks>>
    /\ UNCHANGED <<pie, pdf, pool, mode, file_state, log, chunk_size, chunk_number, acc, pending,
                   progress, report_made>>

\* pd.read_csv(..., names=..., chunksize=chunk_size) creates the reader.
\* With the column names given it raises nothing on a file without rows.
ReadCsv ==
    /\ pc = "read"
    /\ pc' = "loop"
    /\ UNCHANGED <<pie, pdf, pool, mode, file_state, log, chunk_size, total_lines, total_chunks,
                   chunk_number, acc, pending, progress, report_made, exit_status,
                   fatal>>

\* An iteration that catches the exception of a chunk and goes on with
\* the next one.
LoopIteration_skipping ==
    /\ pc = "loop"
    /\ chunk_number < NumChunks(Len(Records(log)), chunk_size)
    /\ chunk_number' = chunk_number + 1
    /\ progress' = Append(progress, <<chunk_number + 1, total_chunks>>)
    /\ acc' = IF MainLoopBody(acc, Chunk(Records(log), chunk_size, chunk_number + 1)).raised # ""
                THEN acc
                ELSE MainLoopBody(acc, Chunk(Records(log), chunk_size, chunk_number + 1))
    /\ UNCHANGED <<pc, exit_status, fatal>>
    /\ UNCHANGED <<pie, pdf, pool, mode, file_state, log, chunk_size, total_lines, total_chunks,
                   pending, report_made>>

\* One iteration of "for chunk in pd.read_csv(...)": the progress line is
\* printed at the head of the iteration, before the filter and the
\* reduction, so an iteration that raises has printed its line.
LoopIteration ==
    /\ pc = "loop"
    /\ chunk_number < NumChunks(Len(Records(log)), chunk_size)
    /\ chunk_number' = chunk_number + 1
    /\ progress' = Append(progress, <<chunk_number + 1, total_chunks>>)
    /\ acc' = MainLoopBody(acc, Chunk(Records(log), chunk_size, chunk_number + 1))
    /\ IF acc'.raised # ""
         THEN Exit(1, acc'.raised)
         ELSE UNCHANGED <<pc, exit_status, fatal>>
    /\ UNCHANGED <<pie, pdf, pool, mode, file_state, log, chunk_size, total_lines, total_chunks,
                   pending, report_made>>

\* After the loop: "if not aggregated_rows: ... sys.exit(1)".
Combine ==
    /\ pc = "loop"
    /\ chunk_number = NumChunks(Len(Records(log)), chunk_size)
    /\ IF acc.aggregated_rows = <<>>
         THEN Exit(1, "No valid data found in the file.")
         ELSE pc' = "report" /\ UNCHANGED <<exit_status, fatal>>
    /\ UNCHANGED <<pie, pdf, pool, mode, file_state, log, chunk_size, total_lines, total_chunks,
                   chunk_number, acc, pending, progress, report_made>>

\* A report stage that looks a missing camera up in camera_event_counts,
\* which as a defaultdict inserts the key.
Report_touching ==
    /\ pc = "report"
    /\ IF acc.hourly_event_counts = EmptyDict
         THEN Exit(1, "KeyError") /\ UNCHANGED report_made
         ELSE Exit(0, "") /\ report_made' = TRUE
    /\ acc' = [acc EXCEPT !.camera_event_counts = AddCounts(@, ("unknown" :> 0))]
    /\ UNCHANGED <<pie, pdf, pool, mode, file_state, log, chunk_size, total_lines, total_chunks,
                   chunk_number, pending, progress>>

\* The report stage.  The camera pies index events_df by column; built
\* from an empty hourly_event_counts it has no columns and the lookup
\* raises KeyError.
Report ==
    /\ pc = "report"
    /\ IF acc.hourly_event_counts = EmptyDict
         THEN Exit(1, "KeyError") /\ UNCHANGED report_made
         ELSE Exit(0, "") /\ report_made' = TRUE
    /\ UNCHANGED <<pie, pdf, pool, mode, file_state, log, chunk_size, total_lines, total_chunks,
                   chunk_number, acc, pending, progress>>

\* ------------------------------------------------------ parallel driver
\* merge of a partial result r into the running accumulators a: key-wise
\* sums of the four count mappings, min / max of the time span with an
\* absent span ignored, concatenation of the valid rows.  The span is
\* compared as the sequential loop compares it.
Merge(a, r) ==
    [ raised |-> "",
      start_time |->
          IF r.start_time = None THEN a.start_time
          ELSE IF a.start_time = None \/ TsLess(r.start_time, a.start_time)
                 THEN r.start_time ELSE a.start_time,
      end_time |->
          IF r.end_time = None THEN a.end_time
          ELSE IF a.end_time = None \/ TsLess(a.end_time, r.end_time)
                 THEN r.end_time ELSE a.end_time,
      aggregated_rows |-> a.aggregated_rows \o r.aggregated_rows,
      total_classification_counts |->
          AddCounts(a.total_classification_counts, r.total_classification_counts),
      camera_event_counts |-> AddCounts(a.camera_event_counts, r.camera_event_counts),
      hourly_event_counts |-> AddCounts(a.hourly_event_counts, r.hourly_event_counts),
      group_class_counts |-> AddCounts(a.group_class_counts, r.group_class_counts) ]

\* A log starts with a header line when the first field of its first line
\* is the name of the timestamp column.
HasHeader(lines) == lines # <<>> /\ Head(lines).datetime = TimestampColumn

\* The lines the parallel driver splits into batches: a header line is
\* skipped.
DataLines(lines) == IF HasHeader(lines) THEN Tail(lines) ELSE lines

\* parse_args() of sv_functions.py: a path that does not exist logs an
\* error and raises SystemExit without a code, which is exit status 0.
ParseArgsSvFunctions ==
    /\ pc = "start" /\ mode = "parallel"
    /\ IF file_state = "missing"
         THEN Exit(0, "Input file does not exist")
         ELSE pc' = "dispatch" /\ UNCHANGED <<exit_status, fatal>>
    /\ UNCHANGED <<pie, pdf, pool, mode, file_state, log, chunk_size, total_lines, total_chunks,
                   chunk_number, acc, pending, progress, report_made>>

\* The driver opens the log and hands every batch to the worker pool.
Dispatch ==
    /\ pc = "dispatch"
    /\ IF file_state = "ok"
         THEN /\ pending' = 1..CeilDiv(Len(DataLines(log)), chunk_size)
              /\ total_lines' = Len(DataLines(log))
              /\ total_chunks' = CeilDiv(Len(DataLines(log)), chunk_size)
              /\ pc' = "collect"
              /\ UNCHANGED <<exit_status, fatal>>
         ELSE /\ Exit(1, "input cannot be opened")
              /\ UNCHANGED <<pending, total_lines, total_chunks>>
    /\ UNCHANGED <<pie, pdf, pool, mode, file_state, log, chunk_size, chunk_number, acc, progress,
                   report_made>>

\* A worker returns the result of process_chunk for one batch, in any
\* order; the driver merges it and reports progress.  A worker that
\* raises ends the run.
WorkerComplete ==
    /\ pc = "collect"
    /\ \E k \in pending :
         LET r == process_chunk(Chunk(DataLines(log), chunk_size, k)) IN
         /\ pending' = pending \ {k}
         /\ chunk_number' = chunk_number + 1
         /\ IF r.raised # ""
              THEN /\ Exit(1, r.raised)
                   /\ UNCHANGED <<acc, progress>>
              ELSE /\ acc' = Merge(acc, r)
                   /\ progress' = Append(progress, <<chunk_number + 1, total_chunks>>)
                   /\ UNCHANGED <<pc, exit_status, fatal>>
    /\ UNCHANGED <<pie, pdf, pool, mode, file_state, log, chunk_size, total_lines, total_chunks,
                   report_made>>

\* All batches are merged: without any valid row the run fails with the
\* "no usable data" condition, otherwise the aggregates go to the report.
Finish ==
    /\ pc = "collect"
    /\ pending = {}
    /\ IF acc.aggregated_rows = <<>>
         THEN Exit(1, "no usable data")
         ELSE pc' = "report" /\ UNCHANGED <<exit_status, fatal>>
    /\ UNCHANGED <<pie, pdf, pool, mode, file_state, log, chunk_size, total_lines, total_chunks,
                   chunk_number, acc, pending, progress, report_made>>

\* ------------------------------------------------------- specification
Next ==
    \/ ParseArgsSvf
    \/ EstimateChunks
    \/ ReadCsv
    \/ LoopIteration
    \/ Combine
    \/ Report
    \/ ParseArgsSvFunctions
    \/ Dispatch
    \/ WorkerComplete
    \/ Finish

Spec == Init /\ [][Next]_vars

\* --------------------------------------- main() on logs with blank lines
\* The logs of this specification: lines of the documented scenario and
\* blank lines.
LogsWithBlankLines ==
    SeqsUpTo({ Row("2024-01-01T10:00:00", "camA", <<"birds", ".", "crow">>, "open"),
               Row("not-a-date", "camA", <<"people", ".", "talk">>, ""),
               BlankLine }, MaxLen)

InitBlankLines ==
    /\ mode = "sequential"
    /\ file_state = "ok"
    /\ log \in LogsWithBlankLines
    /\ chunk_size \in ChunkSizes
    /\ pc = "start"
    /\ total_lines = 0
    /\ total_chunks = 0
    /\ chunk_number = 0
    /\ acc = InitialAccumulators
    /\ pending = {}
    /\ progress = <<>>
    /\ exit_status = None
    /\ fatal = ""
    /\ report_made = FALSE
    /\ pool = IdlePool
    /\ pie = NoPie
    /\ pdf = NoPdf

\* The steps of main() of sv.py.
NextMain ==
    \/ ParseArgsSvf
    \/ EstimateChunks
    \/ ReadCsv
    \/ LoopIteration
    \/ Combine
    \/ Report

SpecBlankLines == InitBlankLines /\ [][NextMain]_vars

\* ------------------------------------ concurrent calls of process_chunk
\* process_chunk() of sv_functions.py statement by statement, for calls
\* that run at the same time on the chunks of one log.  pool.cells holds
\* the dict objects the calls created, pool.calls the position of each
\* call and its local valid_rows.
Workers == {1, 2}

\* The chunk handed to call w.
CallChunk(w) == Chunk(log, chunk_size, w)

\* A results dict created once and shared by all calls.
ResultsCell_shared(w) == 1

\* The dict object 'results' of call w: the call creates it itself, so
\* every call has its own.
ResultsCell(w) == w

\* The variables of the drivers, which no call touches.
DriverVars ==
    <<mode, file_state, log, chunk_size, pc, total_lines, total_chunks,
      chunk_number, acc, pending, progress, exit_status, fatal, report_made,
      pie, pdf>>

InitCalls ==
    /\ mode = "calls"
    /\ file_state = "ok"
    /\ log \in SeqsUpTo(DataRows, MaxLen)
    /\ chunk_size \in ChunkSizes
    /\ pc = "start"
    /\ total_lines = 0
    /\ total_chunks = 0
    /\ chunk_number = 0
    /\ acc = InitialAccumulators
    /\ pending = {}
    /\ progress = <<>>
    /\ exit_status = None
    /\ fatal = ""
    /\ report_made = FALSE
    /\ pool = [cells |-> <<>>,
               calls |-> [w \in Workers |-> [at |-> "enter", valid_rows |-> <<>>]]]
    /\ pie = NoPie
    /\ pdf = NoPdf

\* Call w stands before the named statement.
At(w, where) == mode = "calls" /\ pool.calls[w].at = where

\* results = {...}: a new dict with empty counters and no time span.
CallInit(w) ==
    /\ At(w, "enter")
    /\ pool' = [cells |-> (ResultsCell(w) :> EmptyResults) @@ pool.cells,
                calls |-> [pool.calls EXCEPT ![w].at = "filter"]]
    /\ UNCHANGED DriverVars

\* valid_rows = chunk[...].copy(); "if valid_rows.empty: return results".
CallFilter(w) ==
    /\ At(w, "filter")
    /\ LET valid_rows == ValidRows(CallChunk(w)) IN
       pool' = [pool EXCEPT !.calls[w] =
                   [at |-> IF valid_rows = <<>> THEN "returned" ELSE "span",
                    valid_rows |-> valid_rows]]
    /\ UNCHANGED DriverVars

\* results["start_time"], results["end_time"] and the append of valid_rows.
CallSpan(w) ==
    /\ At(w, "span")
    /\ LET valid_rows == pool.calls[w].valid_rows IN
       pool' = [pool EXCEPT
                   !.cells[ResultsCell(w)] =
                       [@ EXCEPT !.start_time = SeriesMin(valid_rows),
                                 !.end_time = SeriesMax(valid_rows),
                                 !.aggregated_rows = Append(@, valid_rows)],
                   !.calls[w].at = "split"]
    /\ UNCHANGED DriverVars

\* The split of the class column, which raises when no row has a dot.
CallSplit(w) ==
    /\ At(w, "split")
    /\ pool' = [pool EXCEPT !.calls[w].at =
                   IF SplitRaises(pool.calls[w].valid_rows) THEN "raised" ELSE "counts"]
    /\ UNCHANGED DriverVars

\* The four loops that add the counts of the chunk; "return results".
CallCounts(w) ==
    /\ At(w, "counts")
    /\ LET valid_rows == pool.calls[w].valid_rows IN
       pool' = [pool EXCEPT
                   !.cells[ResultsCell(w)] =
                       [@ EXCEPT
                          !.total_classification_counts =
                              AddCounts(@, ValueCounts(GroupKeys(valid_rows))),
                          !.camera_event_counts =
                              AddCounts(@, ValueCounts(CameraKeys(valid_rows))),
                          !.hourly_event_counts =
                              AddCounts(@, ValueCounts(HourlyKeys(valid_rows))),
                          !.group_class_counts =
                              AddCounts(@, ValueCounts(ClassKeys(valid_rows)))],
                   !.calls[w].at = "returned"]
    /\ UNCHANGED DriverVars

NextCalls ==
    \E w \in Workers :
        \/ CallInit(w)
        \/ CallFilter(w)
        \/ CallSpan(w)
        \/ CallSplit(w)
        \/ CallCounts(w)

SpecCalls == InitCalls /\ [][NextCalls]_vars

\* ----------------------------------------------------- the class pies
\* The report draws one pie per group of group_class_counts.  The loop
\* body is the same in sv.py, sv_graphs.create_group_pies and
\* sv_reporting.create_section_3; the model runs it on the class counts of
\* one group.  A pandas Series is modelled as the mapping from its labels
\* to its values; the order of the slices is not modelled.
top_k == 6

\* The largest count drawn for a class.
MaxCount == 2

\* The class names drawn.  One class carries the name the code gives to
\* the slice of the remaining classes.
PieClasses == {"crow", "jay", "owl", "dove", "wren", "lark", "Other"}

\* The class counts a group can have: at least one class, every count
\* at least 1, as value_counts() produces them.
ClassCounts == UNION { [D -> 1..MaxCount] : D \in (SUBSET PieClasses) \ { {} } }

\* data[data > 0]
PositiveCounts(data) == [c \in { k \in DOMAIN data : data[k] > 0 } |-> data[c]]

\* The labels data.head(k) can hold once data is sorted by descending
\* count: k labels (all of them when there are fewer) none of which has a
\* smaller count than a label left out.  The sort is not stable, so equal
\* counts may come in any order.
Heads(data, k) ==
    { T \in SUBSET DOMAIN data :
        /\ Cardinality(T) = Min(k, Cardinality(DOMAIN data))
        /\ \A c \in T, o \in DOMAIN data \ T : data[c] >= data[o] }

\* series[label] = value: overwrites the entry of that label, and appends
\* one when the Series has none.
SetItem(series, label, value) ==
    [c \in DOMAIN series \cup {label} |-> IF c = label THEN value ELSE series[c]]

\* top_classes, from data.head(top_k) and data.iloc[top_k:].sum().
top_classes(data, head) ==
    LET top         == [c \in head |-> data[c]]
        other_count == Total([c \in DOMAIN data \ head |-> data[c]])
    IN  IF other_count > 0 THEN SetItem(top, "Other", other_count) ELSE top

InitPies ==
    /\ mode = "pies"
    /\ file_state = "ok"
    /\ log = <<>>
    /\ chunk_size = 1
    /\ pc = "report"
    /\ total_lines = 0
    /\ total_chunks = 0
    /\ chunk_number = 0
    /\ acc = InitialAccumulators
    /\ pending = {}
    /\ progress = <<>>
    /\ exit_status = None
    /\ fatal = ""
    /\ report_made = FALSE
    /\ pool = IdlePool
    /\ pie \in { [at |-> "group", class_counts |-> d, total_count |-> 0,
                  top_classes |-> EmptyDict] : d \in ClassCounts }
    /\ pdf = NoPdf

\* One pass of the loop over group_class_counts.items().
CreateGroupPie ==
    /\ mode = "pies" /\ pie.at = "group"
    /\ LET data == PositiveCounts(pie.class_counts) IN
       IF DOMAIN data = {}
         THEN pie' = [pie EXCEPT !.at = "skipped",
                                 !.total_count = Total(pie.class_counts)]
         ELSE \E head \in Heads(data, top_k) :
                 pie' = [pie EXCEPT !.at = "drawn",
                                    !.total_count = Total(pie.class_counts),
                                    !.top_classes = top_classes(data, head)]
    /\ UNCHANGED <<pdf, pool, mode, file_state, log, chunk_size, pc, total_lines,
                   total_chunks, chunk_number, acc, pending, progress,
                   exit_status, fatal, report_made>>

NextPies == CreateGroupPie

SpecPies == InitPies /\ [][NextPies]_vars

\* ------------------------------------------------ add_images_to_pdf
\* add_images_to_pdf(c, image_paths, df, rows, cols) lays the images out
\* on pages of rows x cols cells.  pdf.pages is what showPage() has
\* emitted: per page the images drawn, each with its cell, and the number
\* of footers; pdf.drawn is what is drawn on the page not yet emitted.
\* The coordinates computed from a cell are not modelled.
MaxImages == 9
MaxRows == 4
MaxCols == 2

\* The lists of image paths explored, the paths being numbered.
ImageLists == { [j \in 1..n |-> j] : n \in 0..MaxImages }

\* The sets of paths explored that Image.open() cannot open: none, or one.
Unreadable == { {} } \cup { {j} : j \in 1..MaxImages }

\* The data frames explored: one dated row, or one row without timestamp.
DataFrames ==
    { << Row("2024-01-01T10:00:00", "camA", <<"birds", ".", "crow">>, "open") >>,
      << Row("",                    "camB", <<"birds", ".", "crow">>, "open") >> }

\* NaT.strftime() raises ValueError.
StrftimeRaises(t) == t = NaT

\* A cell of the grid: the row taken for the column.
GridCell_swapped(idx, cols) == [row |-> idx % cols, col |-> idx \div cols]

\* col = idx % cols, row = idx // cols
GridCell(idx, cols) == [row |-> idx \div cols, col |-> idx % cols]

\* image_paths[i:i + images_per_page]
PageImages(image_paths, i, images_per_page) ==
    SubSeq(image_paths, i + 1, Min(i + images_per_page, Len(image_paths)))

\* The drawImage calls of the first n images of a page.
DrawImages(page_images, n, cols) ==
    [idx \in 1..n |-> [image_path |-> page_images[idx],
                       row |-> GridCell(idx - 1, cols).row,
                       col |-> GridCell(idx - 1, cols).col]]

InitPdf ==
    /\ mode = "pdf"
    /\ file_state = "ok"
    /\ log = <<>>
    /\ chunk_size = 1
    /\ pc = "report"
    /\ total_lines = 0
    /\ total_chunks = 0
    /\ chunk_number = 0
    /\ acc = InitialAccumulators
    /\ pending = {}
    /\ progress = <<>>
    /\ exit_status = None
    /\ fatal = ""
    /\ report_made = FALSE
    /\ pool = IdlePool
    /\ pie = NoPie
    /\ pdf \in { [at |-> "enter", image_paths |-> l, unreadable |-> u, df |-> d,
                  rows |-> r, cols |-> k, i |-> 0, drawn |-> <<>>, pages |-> <<>>] :
                 l \in ImageLists, u \in Unreadable, d \in DataFrames,
                 r \in 1..MaxRows, k \in 1..MaxCols }

PdfFrame ==
    UNCHANGED <<pie, pool, mode, file_state, log, chunk_size, pc, total_lines,
                total_chunks, chunk_number, acc, pending, progress,
                exit_status, fatal, report_made>>

\* The two strftime() calls that format the span of df for the footer.
AddImagesEnter ==
    /\ mode = "pdf" /\ pdf.at = "enter"
    /\ pdf' = [pdf EXCEPT !.at =
                  IF StrftimeRaises(SeriesMin(pdf.df)) \/ StrftimeRaises(SeriesMax(pdf.df))
                    THEN "raised" ELSE "page"]
    /\ PdfFrame

\* One pass of the outer loop in which every image opens: the images of
\* the page are drawn, then the footer, and the page is emitted.
AddImagesPage ==
    /\ mode = "pdf" /\ pdf.at = "page"
    /\ pdf.i < Len(pdf.image_paths)
    /\ LET images_per_page == pdf.rows * pdf.cols
           page_images     == PageImages(pdf.image_paths, pdf.i, images_per_page)
       IN  /\ Range(page_images) \cap pdf.unreadable = {}
           /\ pdf' = [pdf EXCEPT
                         !.pages = Append(@, [images |-> DrawImages(page_images,
                                                            Len(page_images), pdf.cols),
                                              footers |-> 1]),
                         !.i = @ + images_per_page]
    /\ PdfFrame

\* One pass of the outer loop in which Image.open() fails: the images
\* before the failing one are drawn and the process exits.
AddImagesOpenFails ==
    /\ mode = "pdf" /\ pdf.at = "page"
    /\ pdf.i < Len(pdf.image_paths)
    /\ LET images_per_page == pdf.rows * pdf.cols
           page_images     == PageImages(pdf.image_paths, pdf.i, images_per_page)
       IN  /\ Range(page_images) \cap pdf.unreadable # {}
           /\ LET first == CHOOSE idx \in DOMAIN page_images :
                              /\ page_images[idx] \in pdf.unreadable
                              /\ \A j \in 1..(idx - 1) : page_images[j] \notin pdf.unreadable
              IN  pdf' = [pdf EXCEPT !.at = "exited",
                                     !.drawn = DrawImages(page_images, first - 1, pdf.cols)]
    /\ PdfFrame

\* The outer loop is exhausted and the function returns.
AddImagesReturn ==
    /\ mode = "pdf" /\ pdf.at = "page"
    /\ pdf.i >= Len(pdf.image_paths)
    /\ pdf' = [pdf EXCEPT !.at = "returned"]
    /\ PdfFrame

NextPdf ==
    \/ AddImagesEnter
    \/ AddImagesPage
    \/ AddImagesOpenFails
    \/ AddImagesReturn

SpecPdf == InitPdf /\ [][NextPdf]_vars

\* ------------------------------------------- vocabulary of the claims
\* The spec's validity rule: the timestamp text parses as a date-time.
\* An empty field does not.
Parses(ts) == ts \in DOMAIN ParseTable

\* The four count mappings and the time span of an aggregate.
Aggregates(a) ==
    [ classification_counts |-> a.total_classification_counts,
      source_event_counts |-> a.camera_event_counts,
      hourly_event_counts |-> a.hourly_event_counts,
      group_class_counts |-> a.group_class_counts,
      time_span |-> <<a.start_time, a.end_time>> ]

\* The lines this run splits into chunks.
BatchLines == IF mode = "parallel" THEN DataLines(log) ELSE Records(log)

\* Number of chunks of this run.
LogChunks ==
    IF mode = "parallel" THEN CeilDiv(Len(BatchLines), chunk_size)
    ELSE NumChunks(Len(BatchLines), chunk_size)

\* The partial aggregate process_chunk returns for the k-th chunk.
Partial(k) == process_chunk(Chunk(BatchLines, chunk_size, k))

\* The chunks whose reduction returns.
Returning == { k \in 1..LogChunks : Partial(k).raised = "" }

\* The partial aggregates merged one by one in file order.
RECURSIVE MergeInOrder(_)
MergeInOrder(k) ==
    IF k = 0 THEN InitialAccumulators
    ELSE Merge(MergeInOrder(k - 1), Partial(k))

\* The parallel driver has collected and merged every batch.
AllMerged ==
    /\ mode = "parallel"
    /\ pc \in {"collect", "report"}
    /\ pending = {}
    /\ LogChunks >= 1

\* The sequential driver has left the chunk loop without an exception.
LoopDone ==
    /\ mode = "sequential"
    /\ \/ pc = "report"
       \/ pc = "exited" /\ fatal \in {"No valid data found in the file.", "KeyError", ""}
    /\ file_state = "ok" /\ Len(log) >= 1

\* ------------------------------------------------------------------ C1
\* C1: merging partial aggregates is associative and commutative: every
\* permutation and every binary grouping of merges of the partial
\* aggregates of a log's chunks yields the same four count mappings and
\* the same (start_time, end_time) pair.  Stated for the merges the
\* parallel run performed (any completion order against file order) and
\* for every pair and triple of partial aggregates of the log.
C1_MergeAssociativeCommutative ==
    AllMerged =>
      /\ Aggregates(acc) = Aggregates(MergeInOrder(LogChunks))
      /\ \A i, j \in Returning :
           Aggregates(Merge(Partial(i), Partial(j))) = Aggregates(Merge(Partial(j), Partial(i)))
      /\ \A i, j, k \in Returning :
           Aggregates(Merge(Merge(Partial(i), Partial(j)), Partial(k)))
             = Aggregates(Merge(Partial(i), Merge(Partial(j), Partial(k))))

\* ------------------------------------------------------------------ C2
\* What a run leaves behind: its aggregates and whether a chunk raised.
RunResult(a) == [aggregates |-> Aggregates(a), raised |-> a.raised]

\* C2: chunk-size invariance: the sequential reduction of a log with a
\* batch size of 1, of 7 and of the whole file length yields the same
\* final aggregates, and so does the run with the batch size at hand.
C2_ChunkSizeInvariance ==
    (mode = "sequential" /\ pc \in {"report", "exited"} /\ file_state = "ok" /\ Len(log) >= 1) =>
      /\ RunResult(acc) = RunResult(SequentialRun(log, 1))
      /\ RunResult(acc) = RunResult(SequentialRun(log, 7))
      /\ RunResult(acc) = RunResult(SequentialRun(log, Len(log)))

\* ------------------------------------------------------------------ C3
\* C3: in parallel mode the final accumulated aggregate is the same for
\* every order in which workers complete, and equals the aggregate of the
\* sequential run over the same log.
C3_ParallelEqualsSequential ==
    AllMerged => Aggregates(acc) = Aggregates(SequentialRun(log, chunk_size))


\* ------------------------------------------------------------------ C4
RECURSIVE Flatten(_)
Flatten(ss) == IF ss = <<>> THEN <<>> ELSE Head(ss) \o Flatten(Tail(ss))

\* The lines of the chunks the sequential loop has gone through.
LinesRead == SubSeq(log, 1, Min(chunk_number * chunk_size, Len(log)))

\* The lines among them whose timestamp parses as a date-time.
ParsedLines == SelectSeq(LinesRead, LAMBDA r : Parses(r.datetime))

\* The sequential loop is at a batch boundary and no chunk raised.
AtBoundary == mode = "sequential" /\ pc = "loop" /\ acc.raised = ""

\* C4: a record is excluded from all aggregates exactly when its timestamp
\* does not parse as a date-time: the validated rows are the lines with a
\* parsing timestamp, and only they are counted.  An invalid record does
\* not abort its chunk: a chunk raises only if none of its lines with a
\* parsing timestamp can be split.
C4_ExcludedIffTimestampUnparsable ==
    /\ AtBoundary =>
         /\ Flatten(acc.aggregated_rows) = ParsedLines
         /\ Total(acc.total_classification_counts) = Len(ParsedLines)
         /\ Total(acc.camera_event_counts) = Len(ParsedLines)
    /\ (mode = "sequential" /\ fatal = "ValueError") =>
         \A i \in DOMAIN Chunk(log, chunk_size, chunk_number) :
            LET r == Chunk(log, chunk_size, chunk_number)[i]
            IN  Parses(r.datetime) => ~HasClassName(r.class)

\* ------------------------------------------------------------------ C5
\* The class a record belongs to: the text after the first '.', the empty
\* text when there is no '.'.
ClassOf(p) == IF FirstDot(p) = 0 THEN <<>> ELSE class_name(p)

\* How often each key occurs among the lines with a parsing timestamp.
CountValid(lines, Key(_)) ==
    ValueCounts(MapSeq(SelectSeq(lines, LAMBDA r : Parses(r.datetime)), Key))

\* C5: after the run the three all-record counters hold, for every key,
\* exactly the number of valid records with that key (group, source,
\* (group, class)); no other record contributes.
C5_CountersCountValidRecords ==
    LoopDone =>
      /\ acc.total_classification_counts = CountValid(log, LAMBDA r : group_name(r.class))
      /\ acc.camera_event_counts = CountValid(log, LAMBDA r : r.camera)
      /\ acc.group_class_counts
           = CountValid(log, LAMBDA r : <<group_name(r.class), ClassOf(r.class)>>)

\* ------------------------------------------------------------------ C7
\* The lines read whose timestamp parses and whose class has no '.'.
DotlessLines == SelectSeq(ParsedLines, LAMBDA r : FirstDot(r.class) = 0)

\* C7: a valid record whose class has no '.' is not rejected, and is
\* counted once under its group (the whole text) and once under
\* (group, ""), whatever the other records of its chunk are.
C7_DotlessClassCounted ==
    (mode = "sequential" /\ pc \in {"loop", "report", "exited"} /\ DotlessLines # <<>>) =>
      /\ acc.raised = ""
      /\ \A i \in DOMAIN DotlessLines :
           LET g == DotlessLines[i].class IN
           /\ Get(acc.total_classification_counts, g)
                = Len(SelectSeq(ParsedLines, LAMBDA r : group_name(r.class) = g))
           /\ Get(acc.group_class_counts, <<g, <<>>>>)
                = Len(SelectSeq(DotlessLines, LAMBDA r : r.class = g))

\* ------------------------------------------------------------------ C6
\* The chunks merged into the accumulators so far.
Collected ==
    IF mode = "sequential" THEN 1..chunk_number
    ELSE IF pc \in {"start", "dispatch"} THEN {}
    ELSE (1..LogChunks) \ pending

\* The positions of the lines of these chunks.
CollectedPositions ==
    { i \in DOMAIN BatchLines : ((i - 1) \div chunk_size) + 1 \in Collected }

\* The positions among them of valid records that carry a group_start.
MarkerPositions ==
    { i \in CollectedPositions :
        Parses(BatchLines[i].datetime) /\ BatchLines[i].group_start # "" }

\* (hour bucket, source, group_start) of a valid record.
HourlyKeyOf(r) ==
    <<(ParseTable[r.datetime] \div MinutesPerHour) * MinutesPerHour, r.camera, r.group_start>>

\* The lines with every group_start marker removed.
WithoutMarkers(lines) == [i \in DOMAIN lines |-> [lines[i] EXCEPT !.group_start = ""]]

\* No chunk of the run raised.
NoRaise == acc.raised = "" /\ fatal # "ValueError"

\* C6: group_start asymmetry.  hourly_event_counts counts, at the key
\* (hour bucket, source, group_start), exactly the valid records that
\* carry a group_start marker, so a record without one never contributes
\* to it; classification_counts and group_class_counts are what they
\* would be with every marker removed, so two records that differ only in
\* the marker increment them identically.
C6_GroupStartAsymmetry ==
    /\ NoRaise =>
         /\ \A i \in MarkerPositions : HourlyKeyOf(BatchLines[i]) \in DOMAIN acc.hourly_event_counts
         /\ \A k \in DOMAIN acc.hourly_event_counts :
              acc.hourly_event_counts[k]
                = Cardinality({ i \in MarkerPositions : HourlyKeyOf(BatchLines[i]) = k })
    /\ (NoRaise /\ mode = "sequential") =>
         LET bare == FoldChunks(WithoutMarkers(log), chunk_size, chunk_number) IN
         /\ acc.total_classification_counts = bare.total_classification_counts
         /\ acc.group_class_counts = bare.group_class_counts
         /\ bare.hourly_event_counts = EmptyDict
    /\ (NoRaise /\ AllMerged) =>
         LET bare == SequentialRun(WithoutMarkers(BatchLines), chunk_size) IN
         /\ acc.total_classification_counts = bare.total_classification_counts
         /\ acc.group_class_counts = bare.group_class_counts

\* Both records of a pair that differs only in the marker were reduced:
\* one hourly event, two classifications.
C6_Witness ==
    /\ NoRaise
    /\ \E i, j \in CollectedPositions :
         /\ BatchLines[i] = Row("2024-01-01T10:00:00", "camA", <<"birds", ".", "crow">>, "open")
         /\ BatchLines[j] = Row("2024-01-01T10:00:00", "camA", <<"birds", ".", "crow">>, "")
    /\ Get(acc.hourly_event_counts, <<600, "camA", "open">>) = 1
    /\ Get(acc.total_classification_counts, <<"birds">>) = 2
    /\ Get(acc.group_class_counts, <<<<"birds">>, <<"crow">>>>) = 2

\* ------------------------------------------------------------------ C8
\* The rows the engine kept as valid: the length of the final DataFrame.
valid_row_count == Len(Flatten(acc.aggregated_rows))

\* The rows it skipped.  main() keeps no counter of them; what it holds is
\* the number of lines of the first scan, so the skipped rows are the
\* lines counted that were not kept.
invalid_row_count == total_lines - valid_row_count

\* C8: row-count conservation: at the end of a run the count of valid
\* rows plus the count of rows skipped as invalid is the number of data
\* rows of the log, the header line excluded if there is one.
C8_RowCountConservation ==
    LoopDone => valid_row_count + invalid_row_count = Len(DataLines(log))

\* ------------------------------------------------------------------ C9
\* C9: if the input log does not exist or cannot be opened, the run halts
\* before any batch is reduced and before any report is produced, and the
\* process exits with status 1.
C9_UnopenableLogIsFatal ==
    file_state # "ok" =>
      /\ pc \in {"start", "estimate", "dispatch", "exited"}
      /\ chunk_number = 0
      /\ progress = <<>>
      /\ acc = InitialAccumulators
      /\ ~report_made
      /\ pc = "exited" => exit_status = 1

\* ----------------------------------------------------------------- C10
\* The run ended with the "no usable data" condition.
NoUsableData == fatal \in {"No valid data found in the file.", "no usable data"}

\* No line of the log has a timestamp that parses.
NoValidRow == \A i \in DOMAIN log : ~Parses(log[i].datetime)

\* C10: if the log opens and holds lines none of which is valid, the run
\* of main() never reaches the report stage and ends with the "no usable data"
\* condition and exit status 1; that condition arises only for a log that
\* opened and has no valid row, so it differs from the outcome for a
\* missing file.
C10_NoUsableData ==
    /\ (mode = "sequential" /\ file_state = "ok" /\ Len(log) >= 1 /\ NoValidRow) =>
         /\ pc # "report"
         /\ ~report_made
         /\ pc = "exited" => (exit_status = 1 /\ NoUsableData)
    /\ NoUsableData => (file_state = "ok" /\ NoValidRow /\ exit_status = 1 /\ ~report_made)

\* ----------------------------------------------------------------- C11
\* Some line of the log is a valid row.
SomeValidRow == \E i \in DOMAIN log : Parses(log[i].datetime)

\* C11: a run over an existing log with at least one valid row ends with
\* exit status 0 after handing the aggregates to the report stage,
\* whatever the valid rows hold, also when none of them carries a
\* group_start marker.  Stated for the runs of main() of sv.py in which
\* no chunk raised.
C11_ValidRowRunSucceeds ==
    (mode = "sequential" /\ file_state = "ok" /\ SomeValidRow /\ NoRaise /\ pc = "exited") =>
      (exit_status = 0 /\ report_made)

\* ----------------------------------------------------------------- C12
\* The three-row log of the documented scenario.
Scenario ==
    << Row("2024-01-01T10:00:00", "camA", <<"birds", ".", "crow">>, "open"),
       Row("2024-01-01T10:15:00", "camA", <<"birds", ".", "crow">>, ""),
       Row("not-a-date",          "camA", <<"people", ".", "talk">>, "") >>

\* C12: the run over the three-row log yields 2 valid rows and 1 invalid
\* row, classification_counts = {birds: 2}, group_class_counts =
\* {(birds, crow): 2}, hourly_event_counts = {(10:00, camA, open): 1},
\* source_event_counts = {camA: 2} and the time span (10:00, 10:15), with
\* any chunk size and in both modes.
C12_ThreeRowScenario ==
    (log = Scenario /\ (LoopDone \/ AllMerged)) =>
      /\ valid_row_count = 2
      /\ invalid_row_count = 1
      /\ acc.total_classification_counts = (<<"birds">> :> 2)
      /\ acc.group_class_counts = (<< <<"birds">>, <<"crow">> >> :> 2)
      /\ acc.hourly_event_counts = (<<600, "camA", "open">> :> 1)
      /\ acc.camera_event_counts = ("camA" :> 2)
      /\ acc.start_time = 600
      /\ acc.end_time = 615

\* The scenario ran to the end, its two valid rows in one chunk and the
\* invalid row in the next.
C12_Witness ==
    /\ log = Scenario
    /\ chunk_size = 2
    /\ chunk_number = 2
    /\ pc = "exited"
    /\ exit_status = 0
    /\ report_made
    /\ valid_row_count = 2

\* ----------------------------------------------------------------- C13
\* C13: when the first field of the first line is the name of the
\* timestamp column, the line is a header: it is not counted in the
\* number of rows from which the number of batches is computed and it
\* reaches no aggregate; a first line that is no header is processed as a
\* data row.
C13_HeaderDetection ==
    /\ (file_state = "ok" /\ pc \in {"read", "loop", "collect", "report", "exited"}
          /\ HasHeader(log)) =>
         /\ total_lines = Len(log) - 1
         /\ total_chunks = CeilDiv(Len(log) - 1, chunk_size)
         /\ HeaderRow \notin Range(Flatten(acc.aggregated_rows))
    /\ (log # <<>> /\ ~HasHeader(log) /\ NoRaise /\ 1 \in Collected
          /\ Parses(log[1].datetime)) =>
         log[1] \in Range(Flatten(acc.aggregated_rows))

\* ----------------------------------------------------------------- C14
\* The lines with both scores and both markers present.
WithFields(lines) ==
    [i \in DOMAIN lines |->
        [lines[i] EXCEPT !.group_score = "0.9", !.class_score = "0.8",
                         !.group_start = "open", !.group_end = "close"]]

\* The three all-record counters of an aggregate.
RecordCounters(a) ==
    <<a.total_classification_counts, a.camera_event_counts, a.group_class_counts>>

\* The line has a parsing timestamp and an empty or unparsable score.
ScorelessValid(r) ==
    Parses(r.datetime) /\ (FloatRaises(r.group_score) \/ FloatRaises(r.class_score))

\* C14: a record with a parsing timestamp is valid even when its scores
\* and markers are empty or unparsable: the score converters give
\* not-a-number for such a text, the record is kept among the validated
\* rows, and classification_counts, source_event_counts and
\* group_class_counts are what they would be with these fields present on
\* every line.
C14_EmptyFieldsDoNotInvalidate ==
    /\ \A i \in DOMAIN log :
         /\ log[i].group_score \in {"", "high"} => convert_group_score(log[i].group_score) = NaN
         /\ log[i].class_score \in {"", "high"} => convert_class_score(log[i].class_score) = NaN
    /\ NoRaise =>
         \A i \in CollectedPositions :
            Parses(BatchLines[i].datetime) => BatchLines[i] \in Range(Flatten(acc.aggregated_rows))
    /\ (NoRaise /\ mode = "sequential") =>
         RecordCounters(acc) = RecordCounters(FoldChunks(WithFields(log), chunk_size, chunk_number))
    /\ (NoRaise /\ AllMerged) =>
         RecordCounters(acc) = RecordCounters(SequentialRun(WithFields(BatchLines), chunk_size))

\* A record without scores and markers and the same record with both
\* scores and a group_start marker were both reduced, and each counted
\* once under the same keys.
C14_Witness ==
    /\ NoRaise
    /\ \E i, j \in CollectedPositions :
         /\ ScorelessValid(BatchLines[i])
         /\ BatchLines[i].group_start = "" /\ BatchLines[i].group_end = ""
         /\ BatchLines[j] = [BatchLines[i] EXCEPT !.group_score = "0.9",
                                                  !.class_score = "0.8",
                                                  !.group_start = "open"]
    /\ Get(acc.total_classification_counts, <<"birds">>) = 2
    /\ Get(acc.camera_event_counts, "camA") = 2
    /\ Get(acc.group_class_counts, << <<"birds">>, <<"crow">> >>) = 2

\* ----------------------------------------------------------------- C15
\* The instants of the valid records among the lines.
ValidInstants(lines) ==
    { ParseTable[lines[i].datetime] : i \in { j \in DOMAIN lines : Parses(lines[j].datetime) } }

SetMin(S) == CHOOSE t \in S : \A u \in S : t <= u

SetMax(S) == CHOOSE t \in S : \A u \in S : t >= u

\* C15: the final time span is (minimum, maximum) of the timestamps of
\* all valid records of the log, however the records fall into chunks,
\* and it is absent exactly when the log has no valid record.  Stated for
\* the runs of main() of sv.py in which no chunk raised.
C15_TimeSpanIsMinMax ==
    (NoRaise /\ LoopDone) =>
      LET instants == ValidInstants(log) IN
      /\ instants = {} => (acc.start_time = None /\ acc.end_time = None)
      /\ instants # {} => (acc.start_time = SetMin(instants) /\ acc.end_time = SetMax(instants))

\* ----------------------------------------------------------------- C16
\* The batches main() has completed: the batches taken, less the one
\* whose reduction raised.
CompletedBatches == IF acc.raised # "" THEN chunk_number - 1 ELSE chunk_number

\* C16: the driver emits exactly one progress signal per completed batch:
\* the signal of a batch is emitted once the batch has been completed, so
\* there are always as many signals as completed batches, the i-th one
\* naming batch i, and at the end of a run as many as batches.  Stated
\* for the runs of main() of sv.py.
C16_OneSignalPerBatch ==
    mode = "sequential" =>
      /\ Len(progress) = CompletedBatches
      /\ \A i \in DOMAIN progress : progress[i][1] = i
      /\ LoopDone => Len(progress) = LogChunks

\* ----------------------------------------------------------------- C17
\* C17: the validated row set handed to the report stage holds every
\* valid row of the log exactly once and no invalid row, in file order:
\* it is the sequence of the lines whose timestamp parses.
C17_ValidatedRowsInFileOrder ==
    (mode = "sequential" /\ pc = "report") =>
      Flatten(acc.aggregated_rows) = SelectSeq(log, LAMBDA r : Parses(r.datetime))

\* ----------------------------------------------------------------- C18
\* C18: in sequential mode batches are taken one at a time in input
\* order, and at every batch boundary the accumulated state (four count
\* mappings, time span, validated rows) is the merge of the reductions of
\* exactly the first k batches, k being the number of batches taken: no
\* accumulator is ahead of or behind another.
C18_BatchBoundaryConsistency ==
    (mode = "sequential" /\ pc \in {"loop", "report"}) =>
      /\ acc = MergeInOrder(chunk_number)
      /\ progress = [i \in 1..chunk_number |-> <<i, total_chunks>>]

\* main() stands between the second and the third batch of a log whose
\* first two batches both brought valid rows.
C18_Witness ==
    /\ mode = "sequential" /\ pc = "loop"
    /\ chunk_number = 2 /\ LogChunks = 3
    /\ Len(acc.aggregated_rows) = 2
    /\ Total(acc.camera_event_counts) = 2

\* ----------------------------------------------------------------- C20
\* No line of the chunk has a timestamp that parses.
NoValidRecord(chunk) == \A i \in DOMAIN chunk : ~Parses(chunk[i].datetime)

\* The step takes the next chunk of the sequential loop, and that chunk
\* has no valid record.
TakesEmptyChunk ==
    /\ mode = "sequential" /\ pc = "loop"
    /\ chunk_number' = chunk_number + 1
    /\ NoValidRecord(Chunk(log, chunk_size, chunk_number + 1))

\* C20: a chunk with zero valid records reduces, without raising, to a
\* partial aggregate with four empty count mappings and an absent time
\* span, and taking it leaves every count mapping, the time span and the
\* validated rows of the accumulated aggregate unchanged.
C20_EmptyChunkIsIdentity ==
    [][ TakesEmptyChunk =>
          /\ process_chunk(Chunk(log, chunk_size, chunk_number + 1)) = EmptyResults
          /\ acc' = acc
          /\ Merge(acc, process_chunk(Chunk(log, chunk_size, chunk_number + 1))) = acc
          /\ pc' = "loop" ]_vars

\* ----------------------------------------------------------------- C19
\* C19: calls of process_chunk that run at the same time on disjoint
\* chunks do not interfere: whatever the interleaving of their
\* statements, a call that returns hands back exactly the result of an
\* isolated call on its chunk, and a call raises only if the isolated
\* call on its chunk does.
C19_ConcurrentCallsIsolated ==
    \A w \in Workers :
       /\ At(w, "returned") => pool.cells[ResultsCell(w)] = process_chunk(CallChunk(w))
       /\ At(w, "raised") => process_chunk(CallChunk(w)).raised = "ValueError"

\* The first call has returned a result with valid rows while the second
\* is in the middle of its own reduction of another chunk with valid rows.
C19_Witness ==
    /\ At(1, "returned")
    /\ pool.cells[ResultsCell(1)].aggregated_rows # <<>>
    /\ At(2, "counts")
    /\ pool.cells[ResultsCell(2)].aggregated_rows # <<>>
    /\ CallChunk(1) # CallChunk(2)

\* ----------------------------------------------------------------- C21
\* C21: the contribution of a batch is never silently lost: when the
\* reduction of a batch raises, the run halts there with a failure and no
\* report; the batches taken by a run that has not failed were all
\* reduced, and a report is made only from the aggregates of all batches.
C21_BatchFailureHaltsRun ==
    /\ fatal = "ValueError" => (pc = "exited" /\ exit_status = 1 /\ ~report_made)
    /\ (mode = "sequential" /\ fatal # "ValueError") =>
         \A k \in 1..chunk_number : Partial(k).raised = ""
    /\ (mode = "sequential" /\ fatal = "ValueError") =>
         /\ Partial(chunk_number).raised # ""
         /\ \A k \in 1..(chunk_number - 1) : Partial(k).raised = ""
    /\ report_made =>
         /\ chunk_number = LogChunks
         /\ \A k \in 1..LogChunks : Partial(k).raised = ""

\* main() failed on the second of three batches, after a first batch that
\* brought valid rows; the third batch was never taken.
C21_Witness ==
    /\ mode = "sequential"
    /\ fatal = "ValueError" /\ pc = "exited" /\ exit_status = 1
    /\ chunk_number = 2 /\ LogChunks = 3
    /\ Total(acc.camera_event_counts) >= 1
    /\ ~report_made

\* ----------------------------------------------------------------- C22
\* C22: the accumulated aggregate reaches the report stage only after
\* every batch was merged, and the report stage leaves it as it is: no
\* key of a count mapping is added, removed or changed.
C22_ReportReadsOnly ==
    [][ pc = "report" =>
          /\ chunk_number = LogChunks
          /\ pending = {}
          /\ acc' = acc ]_vars

\* The report was made from aggregates that hold hourly events.
C22_Witness ==
    /\ report_made
    /\ exit_status = 0
    /\ acc.hourly_event_counts # EmptyDict
    /\ chunk_number = LogChunks
    /\ LogChunks >= 2

\* ----------------------------------------------------------------- C23
\* The batches read_csv hands to the loop of main().
Batches ==
    [k \in 1..NumChunks(Len(Records(log)), chunk_size) |-> Chunk(Records(log), chunk_size, k)]

\* C23: the log is split into contiguous batches: every batch taken but
\* the last holds exactly chunk_size rows, the last between 1 and
\* chunk_size, and the batches in order are exactly the rows of the log; so a run
\* that went through all batches kept exactly the rows of the log that
\* pass the filter, in order.
C23_ContiguousBatches ==
    (mode = "sequential" /\ file_state = "ok") =>
      /\ \A k \in 1..chunk_number : k < Len(Batches) => Len(Batches[k]) = chunk_size
      /\ (chunk_number >= 1 /\ chunk_number = Len(Batches)) =>
            Len(Batches[chunk_number]) \in 1..chunk_size
      /\ Flatten(Batches) = Records(log)
      /\ LoopDone => Flatten(acc.aggregated_rows) = ValidRows(Records(log))

\* ----------------------------------------------------------------- C24
\* main() has left the chunk loop.
AfterLoop == pc = "report" \/ (pc = "exited" /\ fatal # "ValueError")

\* C24: the estimated total N of main() is the ceiling of
\* total_lines / chunk_size, every progress message 'Processing chunk k
\* of N' has 1 <= k <= N, and the last chunk processed has k = N.
C24_ProgressReachesEstimate ==
    (mode = "sequential" /\ file_state = "ok" /\ pc \in {"read", "loop", "report", "exited"}) =>
      /\ total_chunks * chunk_size >= total_lines
      /\ (total_chunks - 1) * chunk_size < total_lines
      /\ \A i \in DOMAIN progress :
            /\ progress[i][2] = total_chunks
            /\ 1 <= progress[i][1] /\ progress[i][1] <= total_chunks
      /\ (AfterLoop /\ progress # <<>>) => progress[Len(progress)][1] = total_chunks

\* ----------------------------------------------------------------- C25
\* C25: cross-counter consistency: at every batch boundary the sum of all
\* classification_counts, the sum of all source_event_counts and the sum
\* of all group_class_counts are equal to each other and to the number of
\* rows of the validated row set.
C25_CrossCounterConsistency ==
    (mode = "sequential" /\ pc \in {"loop", "report"}) =>
      /\ Total(acc.total_classification_counts) = valid_row_count
      /\ Total(acc.camera_event_counts) = valid_row_count
      /\ Total(acc.group_class_counts) = valid_row_count

\* ----------------------------------------------------------------- C26
\* The lines read so far whose timestamp field is empty.
EmptyTimestampLines == SelectSeq(LinesRead, LAMBDA r : r.datetime = "")

\* C26: a record whose timestamp field is empty is classified as invalid
\* by is_valid_datetime, so it is not part of the validated row set and
\* contributes to no counter.
C26_EmptyTimestampInvalid ==
    (mode = "sequential" /\ pc \in {"loop", "report"}) =>
      \A i \in DOMAIN EmptyTimestampLines :
         /\ ~is_valid_datetime(EmptyTimestampLines[i].datetime)
         /\ EmptyTimestampLines[i] \notin Range(Flatten(acc.aggregated_rows))
         /\ Total(acc.camera_event_counts) = Len(ParsedLines)

\* ----------------------------------------------------------------- C27
\* The sum of hourly_event_counts over the keys of one source.
HourlyOfSource(a, cam) ==
    SumOver(a.hourly_event_counts, { k \in DOMAIN a.hourly_event_counts : k[2] = cam })

\* C27: at every batch boundary, for each source the sum of
\* hourly_event_counts over all hour buckets and group_start values is at
\* most source_event_counts[source], every source of hourly_event_counts
\* is a source of source_event_counts, and the overall hourly total is
\* the number of valid rows that carry a group_start marker.
C27_HourlyWithinSourceCounts ==
    (mode = "sequential" /\ pc \in {"loop", "report"}) =>
      /\ \A k \in DOMAIN acc.hourly_event_counts :
            /\ k[2] \in DOMAIN acc.camera_event_counts
            /\ HourlyOfSource(acc, k[2]) <= acc.camera_event_counts[k[2]]
      /\ Total(acc.hourly_event_counts)
           = Len(SelectSeq(ParsedLines, LAMBDA r : r.group_start # ""))

\* main() stands at a boundary having counted, for one source, fewer
\* hourly events than rows.
C27_Witness ==
    /\ mode = "sequential" /\ pc = "loop"
    /\ chunk_number >= 2
    /\ HourlyOfSource(acc, "camA") = 1
    /\ Get(acc.camera_event_counts, "camA") = 2
    /\ Get(acc.camera_event_counts, "camB") = 1

\* ----------------------------------------------------------------- C28
\* a <= b for two Timestamps; a comparison with NaT is False.
TsLeq(a, b) == a # NaT /\ b # NaT /\ a <= b

\* Every key stays and no count decreases from d to e.
Grows(d, e) == \A k \in DOMAIN d : k \in DOMAIN e /\ d[k] <= e[k]

\* Every stored count is at least 1.
Positive(d) == \A k \in DOMAIN d : d[k] >= 1

\* C28: accumulation is monotone: from one batch to the next no key is
\* removed from a count mapping and no count decreases, every stored
\* count is at least 1, start_time never increases and end_time never
\* decreases, and start_time <= end_time whenever both are set.
C28_MonotoneAccumulation ==
    [][ (mode = "sequential" /\ pc = "loop" /\ pc' = "loop") =>
          /\ Grows(acc.total_classification_counts, acc'.total_classification_counts)
          /\ Grows(acc.camera_event_counts, acc'.camera_event_counts)
          /\ Grows(acc.hourly_event_counts, acc'.hourly_event_counts)
          /\ Grows(acc.group_class_counts, acc'.group_class_counts)
          /\ Positive(acc'.total_classification_counts)
          /\ Positive(acc'.camera_event_counts)
          /\ Positive(acc'.hourly_event_counts)
          /\ Positive(acc'.group_class_counts)
          /\ acc.start_time # None =>
                (acc'.start_time # None /\ ~TsLess(acc.start_time, acc'.start_time))
          /\ acc.end_time # None =>
                (acc'.end_time # None /\ ~TsLess(acc'.end_time, acc.end_time))
          /\ (acc'.start_time # None /\ acc'.end_time # None) =>
                TsLeq(acc'.start_time, acc'.end_time) ]_vars

\* C29: the slices of a group's class pie are the 6 classes with the
\* highest counts, each with its own count, plus one 'Other' slice when
\* classes remain: at most 7 slices, one per top class and one for the
\* rest, and the slices sum to the group's total count.
C29_PieSlices ==
    (mode = "pies" /\ pie.at = "drawn") =>
        LET counts == pie.class_counts
            slices == pie.top_classes
            n      == Cardinality(DOMAIN counts)
        IN  /\ Cardinality(DOMAIN slices) <= top_k + 1
            /\ Cardinality(DOMAIN slices) =
                   Min(n, top_k) + (IF n > top_k THEN 1 ELSE 0)
            /\ \E T \in SUBSET DOMAIN counts :
                   /\ Cardinality(T) = Min(n, top_k)
                   /\ \A c \in T, o \in DOMAIN counts \ T : counts[c] >= counts[o]
                   /\ \A c \in T : c \in DOMAIN slices /\ slices[c] = counts[c]
            /\ Total(slices) = Total(counts)
            /\ Total(slices) = pie.total_count

\* The image_path fields of the images of the pages, in page order.
RECURSIVE PlacedPaths(_)
PlacedPaths(pages) ==
    IF pages = <<>> THEN <<>>
    ELSE MapSeq(Head(pages).images, LAMBDA d : d.image_path) \o PlacedPaths(Tail(pages))

\* C30: a call of add_images_to_pdf that returns has placed every image
\* of image_paths exactly once and in list order: image i (from 0) is on
\* page i div (rows*cols) in cell ((i mod (rows*cols)) div cols, i mod cols),
\* inside the grid; ceil(len / (rows*cols)) pages are emitted, each with
\* one footer, and none for an empty list.
C30_GridPlacement ==
    (mode = "pdf" /\ pdf.at = "returned") =>
        LET n    == Len(pdf.image_paths)
            per  == pdf.rows * pdf.cols
        IN  /\ PlacedPaths(pdf.pages) = pdf.image_paths
            /\ Len(pdf.pages) = CeilDiv(n, per)
            /\ n = 0 => pdf.pages = <<>>
            /\ \A p \in DOMAIN pdf.pages : pdf.pages[p].footers = 1
            /\ \A i \in 0..(n - 1) :
                   LET page == pdf.pages[(i \div per) + 1]
                       slot == (i % per) + 1
                   IN  /\ slot \in DOMAIN page.images
                       /\ page.images[slot].image_path = pdf.image_paths[i + 1]
                       /\ page.images[slot].row = (i % per) \div pdf.cols
                       /\ page.images[slot].col = i % pdf.cols
                       /\ page.images[slot].row \in 0..(pdf.rows - 1)
                       /\ page.images[slot].col \in 0..(pdf.cols - 1)

\* A call returned after emitting a full page and a partly filled one on
\* the grid of four rows and two columns.
C30_Witness ==
    /\ mode = "pdf" /\ pdf.at = "returned"
    /\ pdf.rows = 4 /\ pdf.cols = 2
    /\ Len(pdf.pages) = 2
    /\ Len(pdf.pages[1].images) = 8
    /\ Len(pdf.pages[2].images) = 1

=============================================================================
